---- MODULE Spec2Model ----
(***************************************************************************)
(* Model of the HD44780-over-I2C-expander driver of src/src/lib.rs.        *)
(*                                                                         *)
(* The driver is single-threaded and synchronous: every public operation   *)
(* runs to completion, so each operation is one action.  The bus (the      *)
(* embedded_hal I2c byte sink) and the delay source are the environment;   *)
(* everything an operation does to them is recorded, in program order, in  *)
(* the variable log, the way a mock bus and mock clock would record it.    *)
(* The bus decides which of the write attempts of an operation fail: that  *)
(* is the input `fail` of every action, a set of attempt numbers.          *)
(***************************************************************************)
EXTENDS Integers, Sequences, FiniteSets, TLC

VARIABLES
    pc,      \* "start": before Lcd::new; "ready": the caller holds a driver and
             \* may call it; "returned": a call on the driver has just returned;
             \* "failed": Lcd::new returned Err; "panicked": the thread panicked
    build,   \* "debug" (overflow checks on) or "release" (u8 arithmetic wraps)
    self,    \* the Lcd struct: control, address, rows, row_offsets
    cols,    \* the cols argument Lcd::new was called with (the driver keeps
             \* only row_offsets; kept here to state properties of them)
    op,      \* the last operation called and its arguments
    log,     \* what the last operation did: calls, bus writes, delays, in order
    result,  \* what the last operation returned
    after_newline
             \* history: the call made on the driver just before the one that
             \* op, log and result describe (in a "ready" state: the call that
             \* has just returned) was a print that advanced the row

vars == <<pc, build, self, cols, op, log, result, after_newline>>

----------------------------------------------------------------------------
(* Bounds of the model. *)

\* rows passed to Lcd::new range over 0..MaxRows
MaxRows == 4
\* texts passed to print have at most MaxTextLen characters
MaxTextLen == 4
\* a bus failure of an operation after construction hits one of its first
\* MaxFailAt write attempts (or none)
MaxFailAt == 7
\* a bus failure during construction hits one of the first MaxInitFailAt
\* write attempts of init (or none); init makes 31
MaxInitFailAt == 31
\* calls of DisplayControl::value() made on one DisplayControl
MaxValueCalls == 2

----------------------------------------------------------------------------
(* The flag enumerations and their bit patterns. *)

Cursor_On == 2
Cursor_Off == 0
Blink_On == 1
Blink_Off == 0
Display_On == 4
Display_Off == 0
Backlight_On == 8
Backlight_Off == 0

Mode_CLEARDISPLAY == 1
Mode_RETURNHOME == 2
Mode_ENTRYMODESET == 4
Mode_DISPLAYCONTROL == 8
Mode_FUNCTIONSET == 32
Mode_SETCGRAMADDR == 64
Mode_SETDDRAMADDR == 128

Entries_LEFT == 2
Direction_LEFT == 0
Direction_RIGHT == 4
Shift_DECREMENT == 0
BitMode_Bit4 == 0
BitMode_Bit8 == 16
Dots_Dots5x8 == 0
Lines_TwoLine == 8

BitAction_Command == 0
BitAction_Enable == 4
BitAction_RegisterSelect == 1

----------------------------------------------------------------------------
(* u8 arithmetic. *)

U8 == 256

RECURSIVE BitOr(_, _)
BitOr(a, b) ==
    IF a = 0 THEN b
    ELSE IF b = 0 THEN a
    ELSE (IF a % 2 = 1 \/ b % 2 = 1 THEN 1 ELSE 0) + 2 * BitOr(a \div 2, b \div 2)

RECURSIVE BitAnd(_, _)
BitAnd(a, b) ==
    IF a = 0 \/ b = 0 THEN 0
    ELSE (IF a % 2 = 1 /\ b % 2 = 1 THEN 1 ELSE 0) + 2 * BitAnd(a \div 2, b \div 2)

\* !x on a u8
BitNot(a) == (U8 - 1) - a

\* x << k on a u8 (k < 8): the bits shifted out are lost
Shl(a, k) == (a * (2 ^ k)) % U8

\* a + b on u8: a panic with overflow checks (debug), wrapping without (release).
\* The value is meaningful only where AddOverflows is false or the build wraps.
AddOverflows(a, b) == a + b >= U8
WrappingAdd(a, b) == (a + b) % U8

----------------------------------------------------------------------------
(* The Control Aggregator. *)

\* mutant of DisplayControl_new: the display flag starts On
DisplayControl_new_on ==
    [cursor |-> Cursor_Off, display |-> Display_On, blink |-> Blink_Off,
     backlight |-> Backlight_On, direction |-> Direction_LEFT]

DisplayControl_new ==
    [cursor |-> Cursor_Off, display |-> Display_Off, blink |-> Blink_Off,
     backlight |-> Backlight_On, direction |-> Direction_LEFT]

\* mutant of DisplayControl_value: the direction is OR-ed in as well
DisplayControl_value_direction(c) ==
    BitOr(BitOr(BitOr(BitOr(c.blink, c.cursor), c.display), c.backlight), c.direction)

DisplayControl_value(c) ==
    BitOr(BitOr(BitOr(c.blink, c.cursor), c.display), c.backlight)

----------------------------------------------------------------------------
(* An execution of one operation.  ctx threads the recorded log, the       *)
(* number of bus write attempts made so far, the attempts the bus fails,   *)
(* and the outcome so far: "ok", "err" (a bus error is being propagated by *)
(* `?`, err names it) or "panic".  A step that is reached only through `?` *)
(* is skipped once the outcome is not "ok".                                *)

NewCtx(fail) == [log |-> <<>>, n |-> 0, fail |-> fail, res |-> "ok", err |-> 0]

Record(ctx, ev) == [ctx EXCEPT !.log = Append(@, ev)]

Call(ctx, f, args) ==
    IF ctx.res # "ok" THEN ctx
    ELSE Record(ctx, [k |-> "call", f |-> f, args |-> args])

\* I2c::write(address, &[byte]): the n-th attempt of the operation fails iff
\* the bus says so; the error value identifies the failed attempt
i2c_write(ctx, address, byte) ==
    LET n == ctx.n + 1
        ok == n \notin ctx.fail
    IN  [ctx EXCEPT !.n = n,
                    !.log = Append(@, [k |-> "i2c", a |-> address, b |-> byte, ok |-> ok]),
                    !.res = IF ok THEN "ok" ELSE "err",
                    !.err = IF ok THEN 0 ELSE n]

delay_ms(ctx, ms) ==
    IF ctx.res # "ok" THEN ctx ELSE Record(ctx, [k |-> "delay_ms", n |-> ms])

delay_us(ctx, us) ==
    IF ctx.res # "ok" THEN ctx ELSE Record(ctx, [k |-> "delay_us", n |-> us])

Panic(ctx) == IF ctx.res # "ok" THEN ctx ELSE [ctx EXCEPT !.res = "panic"]

\* mutant of Discard: the error is kept, as `?` would
Discard_propagate(ctx) == ctx

\* `let _ = ...`: a bus error is dropped and execution goes on
Discard(ctx) == IF ctx.res = "err" THEN [ctx EXCEPT !.res = "ok", !.err = 0] ELSE ctx

----------------------------------------------------------------------------
(* Low level data pushing commands. *)

expander_write(s, ctx, data) ==
    IF ctx.res # "ok" THEN ctx
    ELSE i2c_write(Call(ctx, "expander_write", <<data>>), s.address,
                   BitOr(data, s.control.backlight))

\* mutant of pulse_enable: enable is cleared without waiting first
pulse_enable_no_hold(s, ctx, data) ==
    IF ctx.res # "ok" THEN ctx
    ELSE LET c0 == Call(ctx, "pulse_enable", <<data>>)
             c1 == expander_write(s, c0, BitOr(data, BitAction_Enable))
             c3 == expander_write(s, c1, BitAnd(data, BitNot(BitAction_Enable)))
         IN  delay_us(c3, 1)

\* mutant of pulse_enable: the second write clears the data lines as well
pulse_enable_clear_all(s, ctx, data) ==
    IF ctx.res # "ok" THEN ctx
    ELSE LET c0 == Call(ctx, "pulse_enable", <<data>>)
             c1 == expander_write(s, c0, BitOr(data, BitAction_Enable))
             c2 == delay_us(c1, 1)
             c3 == expander_write(s, c2, 0)
         IN  delay_us(c3, 1)

pulse_enable(s, ctx, data) ==
    IF ctx.res # "ok" THEN ctx
    ELSE LET c0 == Call(ctx, "pulse_enable", <<data>>)
             c1 == expander_write(s, c0, BitOr(data, BitAction_Enable))
             c2 == delay_us(c1, 1)
             c3 == expander_write(s, c2, BitAnd(data, BitNot(BitAction_Enable)))
         IN  delay_us(c3, 1)

\* mutant of write4bits: the result of its first write is dropped
write4bits_unchecked(s, ctx, value) ==
    IF ctx.res # "ok" THEN ctx
    ELSE LET c0 == Call(ctx, "write4bits", <<value>>)
             c1 == Discard(expander_write(s, c0, value))
         IN  pulse_enable(s, c1, value)

\* mutant of write4bits: the nibble is not written before the pulse
write4bits_pulse_only(s, ctx, value) ==
    IF ctx.res # "ok" THEN ctx
    ELSE pulse_enable(s, Call(ctx, "write4bits", <<value>>), value)

write4bits(s, ctx, value) ==
    IF ctx.res # "ok" THEN ctx
    ELSE LET c0 == Call(ctx, "write4bits", <<value>>)
             c1 == expander_write(s, c0, value)
         IN  pulse_enable(s, c1, value)

\* mutant of send: the high nibble is sent without masking off the low bits
send_unmasked(s, ctx, data, mode) ==
    IF ctx.res # "ok" THEN ctx
    ELSE LET high_bits == data
             low_bits == BitAnd(Shl(data, 4), 240)
             c0 == Call(ctx, "send", <<data, mode>>)
             c1 == write4bits(s, c0, BitOr(high_bits, mode))
         IN  write4bits(s, c1, BitOr(low_bits, mode))

\* mutant of send: the low nibble is sent although the high nibble failed
send_no_abort(s, ctx, data, mode) ==
    IF ctx.res # "ok" THEN ctx
    ELSE LET high_bits == BitAnd(data, 240)
             low_bits == BitAnd(Shl(data, 4), 240)
             c0 == Call(ctx, "send", <<data, mode>>)
             c1 == Discard(write4bits(s, c0, BitOr(high_bits, mode)))
         IN  write4bits(s, c1, BitOr(low_bits, mode))

\* mutant of send: the low nibble is sent before the high nibble
send_low_first(s, ctx, data, mode) ==
    IF ctx.res # "ok" THEN ctx
    ELSE LET high_bits == BitAnd(data, 240)
             low_bits == BitAnd(Shl(data, 4), 240)
             c0 == Call(ctx, "send", <<data, mode>>)
             c1 == write4bits(s, c0, BitOr(low_bits, mode))
         IN  write4bits(s, c1, BitOr(high_bits, mode))

\* mutant of send: a byte below 0x10 is sent as its low nibble alone
send_short(s, ctx, data, mode) ==
    IF ctx.res # "ok" THEN ctx
    ELSE LET high_bits == BitAnd(data, 240)
             low_bits == BitAnd(Shl(data, 4), 240)
             c0 == Call(ctx, "send", <<data, mode>>)
             c1 == IF high_bits = 0 THEN c0 ELSE write4bits(s, c0, BitOr(high_bits, mode))
         IN  write4bits(s, c1, BitOr(low_bits, mode))

send(s, ctx, data, mode) ==
    IF ctx.res # "ok" THEN ctx
    ELSE LET high_bits == BitAnd(data, 240)
             low_bits == BitAnd(Shl(data, 4), 240)
             c0 == Call(ctx, "send", <<data, mode>>)
             c1 == write4bits(s, c0, BitOr(high_bits, mode))
         IN  write4bits(s, c1, BitOr(low_bits, mode))

command(s, ctx, value) ==
    IF ctx.res # "ok" THEN ctx
    ELSE send(s, Call(ctx, "command", <<value>>), value, BitAction_Command)

write(s, ctx, value) ==
    IF ctx.res # "ok" THEN ctx
    ELSE send(s, Call(ctx, "write", <<value>>), value, BitAction_RegisterSelect)

write_display_control(s, ctx) ==
    IF ctx.res # "ok" THEN ctx
    ELSE command(s, Call(ctx, "write_display_control", <<>>),
                 BitOr(Mode_DISPLAYCONTROL, DisplayControl_value(s.control)))

----------------------------------------------------------------------------
(* High level commands. *)

\* mutant of clear: the execution time of the command is not waited for
clear_no_delay(s, ctx) ==
    IF ctx.res # "ok" THEN ctx
    ELSE command(s, Call(ctx, "clear", <<>>), Mode_CLEARDISPLAY)

clear(s, ctx) ==
    IF ctx.res # "ok" THEN ctx
    ELSE delay_ms(command(s, Call(ctx, "clear", <<>>), Mode_CLEARDISPLAY), 2)

home(s, ctx) ==
    IF ctx.res # "ok" THEN ctx
    ELSE delay_ms(command(s, Call(ctx, "home", <<>>), Mode_RETURNHOME), 2)

\* mutant of init: the 8-bit-mode nibble is sent twice instead of three times
init_two_sends(s, ctx) ==
    LET mode_8bit == BitOr(Mode_FUNCTIONSET, BitMode_Bit8)
        mode_4bit == BitOr(Mode_FUNCTIONSET, BitMode_Bit4)
        lines_font == BitOr(BitOr(BitOr(Mode_FUNCTIONSET, BitMode_Bit4), Dots_Dots5x8),
                            Lines_TwoLine)
        entry_mode == BitOr(BitOr(Mode_ENTRYMODESET, Entries_LEFT), Shift_DECREMENT)
        c0  == delay_ms(Call(ctx, "init", <<>>), 50)
        c1  == delay_ms(expander_write(s, c0, s.control.backlight), 1)
        c2  == delay_ms(write4bits(s, c1, mode_8bit), 5)
        c3  == delay_ms(write4bits(s, c2, mode_8bit), 5)
        c5  == delay_ms(write4bits(s, c3, mode_4bit), 5)
        c6  == command(s, c5, lines_font)
        c7  == clear(s, c6)
    IN  command(s, c7, entry_mode)

init(s, ctx) ==
    LET mode_8bit == BitOr(Mode_FUNCTIONSET, BitMode_Bit8)
        mode_4bit == BitOr(Mode_FUNCTIONSET, BitMode_Bit4)
        lines_font == BitOr(BitOr(BitOr(Mode_FUNCTIONSET, BitMode_Bit4), Dots_Dots5x8),
                            Lines_TwoLine)
        entry_mode == BitOr(BitOr(Mode_ENTRYMODESET, Entries_LEFT), Shift_DECREMENT)
        c0  == delay_ms(Call(ctx, "init", <<>>), 50)
        c1  == delay_ms(expander_write(s, c0, s.control.backlight), 1)
        c2  == delay_ms(write4bits(s, c1, mode_8bit), 5)
        c3  == delay_ms(write4bits(s, c2, mode_8bit), 5)
        c4  == delay_ms(write4bits(s, c3, mode_8bit), 5)
        c5  == delay_ms(write4bits(s, c4, mode_4bit), 5)
        c6  == command(s, c5, lines_font)
        c7  == clear(s, c6)
    IN  command(s, c7, entry_mode)

\* mutant of set_cursor_position: the row is not clamped to the display's rows
set_cursor_position_unclamped(s, ctx, col, row) ==
    LET max_rows == Len(s.row_offsets)
        c0 == Call(ctx, "set_cursor_position", <<col, row>>)
        row1 == IF row >= max_rows THEN max_rows - 1 ELSE row
        offset == s.row_offsets[row1 + 1]
    IN  IF c0.res # "ok" THEN c0
        ELSE IF AddOverflows(col, offset) /\ build = "debug" THEN Panic(c0)
        ELSE command(s, c0, BitOr(Mode_SETDDRAMADDR, WrappingAdd(col, offset)))

set_cursor_position(s, ctx, col, row) ==
    LET max_rows == Len(s.row_offsets)
        c0 == Call(ctx, "set_cursor_position", <<col, row>>)
        row1 == IF row >= max_rows THEN max_rows - 1 ELSE row
        \* self.rows - 1 with rows = 0: overflow panic in debug; in release it
        \* wraps to 255 and the index below is out of bounds: a panic too
        underflow == row1 >= s.rows /\ s.rows = 0
        row2 == IF row1 >= s.rows THEN s.rows - 1 ELSE row1
        offset == s.row_offsets[row2 + 1]
    IN  IF c0.res # "ok" THEN c0
        ELSE IF underflow THEN Panic(c0)
        ELSE IF AddOverflows(col, offset) /\ build = "debug" THEN Panic(c0)
        ELSE command(s, c0, BitOr(Mode_SETDDRAMADDR, WrappingAdd(col, offset)))

RECURSIVE create_char_loop(_, _, _)
create_char_loop(s, ctx, items) ==
    IF items = <<>> \/ ctx.res # "ok" THEN ctx
    ELSE create_char_loop(s, Discard(write(s, ctx, Head(items))), Tail(items))

create_char(s, ctx, location, charmap) ==
    LET loc == BitAnd(location, 7)
        c0 == Call(ctx, "create_char", <<location, charmap>>)
        c1 == Discard(command(s, c0, BitOr(Mode_SETCGRAMADDR, Shl(loc, 3))))
    IN  create_char_loop(s, c1, charmap)

\* u8::clamp(self, min, max); it asserts min <= max
Clamp(x, min, max) == IF x < min THEN min ELSE IF x > max THEN max ELSE x

\* mutant of print_loop: '\n' is also written to the display as a data byte
RECURSIVE print_loop_newline_data(_, _, _, _)
print_loop_newline_data(s, ctx, chars, row) ==
    IF chars = <<>> \/ ctx.res # "ok" THEN ctx
    ELSE LET c == Head(chars) IN
         IF c = 10
         THEN IF AddOverflows(row, 1) /\ build = "debug" THEN Panic(ctx)
              ELSE IF 1 > s.rows THEN Panic(ctx)
              ELSE LET row1 == Clamp(WrappingAdd(row, 1), 1, s.rows)
                   IN  print_loop_newline_data(
                           s, write(s, set_cursor_position(s, ctx, 0, row1), c % U8),
                           Tail(chars), row1)
         ELSE print_loop_newline_data(s, write(s, ctx, c % U8), Tail(chars), row)

\* mutant of print_loop: past the last row the row wraps to the first
RECURSIVE print_loop_wrap(_, _, _, _)
print_loop_wrap(s, ctx, chars, row) ==
    IF chars = <<>> \/ ctx.res # "ok" THEN ctx
    ELSE LET c == Head(chars) IN
         IF c = 10
         THEN IF AddOverflows(row, 1) /\ build = "debug" THEN Panic(ctx)
              ELSE IF 1 > s.rows THEN Panic(ctx)
              ELSE LET row1 == IF row + 1 >= s.rows THEN 0 ELSE row + 1
                   IN  print_loop_wrap(s, set_cursor_position(s, ctx, 0, row1),
                                       Tail(chars), row1)
         ELSE print_loop_wrap(s, write(s, ctx, c % U8), Tail(chars), row)

\* the for loop of print: chars are Unicode scalar values, '\n' is 10
RECURSIVE print_loop(_, _, _, _)
print_loop(s, ctx, chars, row) ==
    IF chars = <<>> \/ ctx.res # "ok" THEN ctx
    ELSE LET c == Head(chars) IN
         IF c = 10
         THEN IF AddOverflows(row, 1) /\ build = "debug" THEN Panic(ctx)
              ELSE IF 1 > s.rows THEN Panic(ctx)
              ELSE LET row1 == Clamp(WrappingAdd(row, 1), 1, s.rows)
                   IN  print_loop(s, set_cursor_position(s, ctx, 0, row1),
                                  Tail(chars), row1)
         ELSE print_loop(s, write(s, ctx, c % U8), Tail(chars), row)

\* mutant of print: the row continues from the one an earlier print reached
print_continued(s, ctx, text) ==
    print_loop(s, Call(ctx, "print", <<text>>), text, IF after_newline THEN 1 ELSE 0)

print(s, ctx, text) ==
    print_loop(s, Call(ctx, "print", <<text>>), text, 0)

----------------------------------------------------------------------------
(* Inputs. *)

Builds == {"debug", "release"}
Addresses == {39}
ColsArgs == {16, 200}
RowsArgs == 0 .. MaxRows
ColArgs == {3, 200}
RowArgs == (0 .. (MaxRows + 1)) \cup {255}
ByteArgs == {65, 255}
LocationArgs == {3, 9}
CharmapArgs == {<<0, 1, 2, 4, 8, 16, 31, 21>>}

RECURSIVE SeqsUpTo(_, _)
SeqsUpTo(S, n) ==
    IF n = 0 THEN {<<>>}
    ELSE LET shorter == SeqsUpTo(S, n - 1)
         IN  shorter \cup {Append(t, c) : t \in shorter, c \in S}

\* texts over 'A' and '\n', plus "AB\nC" and a text with a char above U+00FF
TextArgs == SeqsUpTo({65, 10}, MaxTextLen) \cup {<<65, 66, 10, 67>>, <<321, 10>>}

\* the bus fails no write attempt of the operation, or one of the first k
FailOne(k) == {{}} \cup {{i} : i \in 1 .. k}
\* ... or two of them (create_char goes on after a failure)
FailTwo(k) == FailOne(k) \cup {{i, j} : i, j \in 1 .. k}

----------------------------------------------------------------------------
(* State. *)

NoLcd == [none |-> TRUE]
NoOp == [name |-> "none", args |-> <<>>]
NoResult == [tag |-> "none", err |-> 0]

\* what the caller gets back: Ok, Err(e) with the bus error e, or nothing (panic)
Returned(ctx) ==
    CASE ctx.res = "ok" -> [tag |-> "Ok", err |-> 0]
      [] ctx.res = "err" -> [tag |-> "Err", err |-> ctx.err]
      [] OTHER -> [tag |-> "panic", err |-> 0]

Init ==
    /\ pc = "start"
    /\ build \in Builds
    /\ self = NoLcd
    /\ cols = 0
    /\ op = NoOp
    /\ log = <<>>
    /\ result = NoResult
    /\ after_newline = FALSE

\* the end of a method called on a driver: the thread goes on unless it panicked
Finish(name, args, s, ctx) ==
    /\ pc' = IF ctx.res = "panic" THEN "panicked" ELSE "returned"
    /\ self' = s
    /\ op' = [name |-> name, args |-> args]
    /\ log' = ctx.log
    /\ result' = Returned(ctx)
    /\ UNCHANGED <<build, cols, after_newline>>

\* Lcd::new(i2c, address, delay, cols, rows)
New ==
    \E address \in Addresses, ncols \in ColsArgs, rows \in RowsArgs,
       fail \in FailOne(MaxInitFailAt) :
        /\ pc = "start"
        /\ cols' = ncols
        /\ LET overflow == AddOverflows(64, ncols)
               display == [control |-> DisplayControl_new,
                           address |-> address,
                           rows |-> rows,
                           row_offsets |-> <<0, 64, ncols, WrappingAdd(64, ncols)>>]
               ctx == IF overflow /\ build = "debug"
                      THEN Panic(NewCtx(fail))
                      ELSE init(display, NewCtx(fail))
           IN  /\ pc' = CASE ctx.res = "ok" -> "returned"
                          [] ctx.res = "err" -> "failed"
                          [] OTHER -> "panicked"
               /\ self' = IF ctx.res = "ok" THEN display ELSE NoLcd
               /\ op' = [name |-> "new", args |-> <<address, ncols, rows>>]
               /\ log' = ctx.log
               /\ result' = Returned(ctx)
               /\ UNCHANGED <<build, after_newline>>

ClearOp ==
    \E fail \in FailOne(MaxFailAt) :
        /\ pc = "ready"
        /\ Finish("clear", <<>>, self, clear(self, NewCtx(fail)))

HomeOp ==
    \E fail \in FailOne(MaxFailAt) :
        /\ pc = "ready"
        /\ Finish("home", <<>>, self, home(self, NewCtx(fail)))

SetCursorPosition ==
    \E col \in ColArgs, row \in RowArgs, fail \in FailOne(MaxFailAt) :
        /\ pc = "ready"
        /\ Finish("set_cursor_position", <<col, row>>, self,
                  set_cursor_position(self, NewCtx(fail), col, row))

CreateChar ==
    \E location \in LocationArgs, charmap \in CharmapArgs, fail \in FailTwo(MaxFailAt) :
        /\ pc = "ready"
        /\ Finish("create_char", <<location, charmap>>, self,
                  create_char(self, NewCtx(fail), location, charmap))

\* mutant of SetDisplay: the command is computed from the fields before the update
SetDisplay_stale ==
    \E display \in {Display_On, Display_Off}, fail \in FailOne(MaxFailAt) :
        /\ pc = "ready"
        /\ LET s == [self EXCEPT !.control.display = display]
           IN  Finish("set_display", <<display>>, s,
                      write_display_control(self, Call(NewCtx(fail), "set_display", <<display>>)))

SetDisplay ==
    \E display \in {Display_On, Display_Off}, fail \in FailOne(MaxFailAt) :
        /\ pc = "ready"
        /\ LET s == [self EXCEPT !.control.display = display]
           IN  Finish("set_display", <<display>>, s,
                      write_display_control(s, Call(NewCtx(fail), "set_display", <<display>>)))

SetCursor ==
    \E cursor \in {Cursor_On, Cursor_Off}, fail \in FailOne(MaxFailAt) :
        /\ pc = "ready"
        /\ LET s == [self EXCEPT !.control.cursor = cursor]
           IN  Finish("set_cursor", <<cursor>>, s,
                      write_display_control(s, Call(NewCtx(fail), "set_cursor", <<cursor>>)))

\* mutant of SetBlink: the old flag is put back when the bus write fails
SetBlink_rollback ==
    \E blink \in {Blink_On, Blink_Off}, fail \in FailOne(MaxFailAt) :
        /\ pc = "ready"
        /\ LET s == [self EXCEPT !.control.blink = blink]
               ctx == write_display_control(s, Call(NewCtx(fail), "set_blink", <<blink>>))
           IN  Finish("set_blink", <<blink>>, IF ctx.res = "err" THEN self ELSE s, ctx)

SetBlink ==
    \E blink \in {Blink_On, Blink_Off}, fail \in FailOne(MaxFailAt) :
        /\ pc = "ready"
        /\ LET s == [self EXCEPT !.control.blink = blink]
           IN  Finish("set_blink", <<blink>>, s,
                      write_display_control(s, Call(NewCtx(fail), "set_blink", <<blink>>)))

\* mutant of SetBacklight: the bus write is made before the flag is stored
SetBacklight_late ==
    \E backlight \in {Backlight_On, Backlight_Off}, fail \in FailOne(MaxFailAt) :
        /\ pc = "ready"
        /\ LET s == [self EXCEPT !.control.backlight = backlight]
           IN  Finish("set_backlight", <<backlight>>, s,
                      expander_write(self, Call(NewCtx(fail), "set_backlight", <<backlight>>), 0))

SetBacklight ==
    \E backlight \in {Backlight_On, Backlight_Off}, fail \in FailOne(MaxFailAt) :
        /\ pc = "ready"
        /\ LET s == [self EXCEPT !.control.backlight = backlight]
           IN  Finish("set_backlight", <<backlight>>, s,
                      expander_write(s, Call(NewCtx(fail), "set_backlight", <<backlight>>), 0))

PrintOp ==
    \E text \in TextArgs, fail \in FailOne(MaxFailAt) :
        /\ pc = "ready"
        /\ Finish("print", <<text>>, self, print(self, NewCtx(fail), text))

WriteOp ==
    \E value \in ByteArgs, fail \in FailOne(MaxFailAt) :
        /\ pc = "ready"
        /\ Finish("write", <<value>>, self, write(self, NewCtx(fail), value))

\* the recorded print passed a '\n': print assigns its row just before each
\* of its set_cursor_position calls
AdvancedRow(l) ==
    \E i \in 1 .. Len(l) : l[i].k = "call" /\ l[i].f = "set_cursor_position"

\* The caller takes the returned value and the recording starts afresh for
\* the next call: log, op and result describe one operation at a time.
Resume ==
    /\ pc = "returned"
    /\ pc' = "ready"
    /\ op' = NoOp
    /\ log' = <<>>
    /\ result' = NoResult
    /\ after_newline' = (op.name = "print" /\ AdvancedRow(log))
    /\ UNCHANGED <<build, self, cols>>

Next ==
    \/ New
    \/ ClearOp
    \/ HomeOp
    \/ SetCursorPosition
    \/ CreateChar
    \/ SetDisplay
    \/ SetCursor
    \/ SetBlink
    \/ SetBacklight
    \/ PrintOp
    \/ WriteOp
    \/ Resume

Spec == Init /\ [][Next]_vars

----------------------------------------------------------------------------
(* A DisplayControl on its own: its fields are public, so its owner may     *)
(* hold any combination of them, assign them and call value().  Here self   *)
(* is the DisplayControl, log records the calls of value() and result       *)
(* holds the byte returned by the last call since the last assignment.      *)

Controls ==
    [cursor : {Cursor_On, Cursor_Off}, display : {Display_On, Display_Off},
     blink : {Blink_On, Blink_Off}, backlight : {Backlight_On, Backlight_Off},
     direction : {Direction_LEFT, Direction_RIGHT}]

ValueInit ==
    /\ pc = "control"
    /\ build \in Builds
    /\ self \in Controls
    /\ cols = 0
    /\ op = NoOp
    /\ log = <<>>
    /\ result = NoResult
    /\ after_newline = FALSE

ValueCall ==
    /\ pc = "control"
    /\ Len(log) < MaxValueCalls
    /\ op' = [name |-> "value", args |-> <<>>]
    /\ log' = Append(log, [k |-> "call", f |-> "value", args |-> <<>>])
    /\ result' = [tag |-> "Ok", err |-> 0, value |-> DisplayControl_value(self)]
    /\ UNCHANGED <<pc, build, self, cols, after_newline>>

FieldAssign ==
    \E c \in Controls :
        /\ pc = "control"
        /\ c # self
        /\ self' = c
        /\ op' = [name |-> "assign", args |-> <<>>]
        /\ result' = NoResult
        /\ UNCHANGED <<pc, build, cols, log, after_newline>>

ValueNext ==
    \/ ValueCall
    \/ FieldAssign

ValueSpec == ValueInit /\ [][ValueNext]_vars

----------------------------------------------------------------------------
(* Views of the recording of an operation. *)

IsWrite(e) == e.k = "i2c"
IsWire(e) == e.k # "call"
IsMs(e) == e.k = "delay_ms"

\* the bus write attempts, in order
Writes(l) == SelectSeq(l, IsWrite)
\* the bus write attempts and the delays, in order
Wire(l) == SelectSeq(l, IsWire)
\* the millisecond delays, in order
MsDelays(l) == LET ds == SelectSeq(l, IsMs) IN [i \in 1 .. Len(ds) |-> ds[i].n]
\* the calls of the functions named in fs, in order
CallsOf(l, fs) ==
    LET IsIn(e) == e.k = "call" /\ e.f \in fs
        cs == SelectSeq(l, IsIn)
    IN  [i \in 1 .. Len(cs) |-> <<cs[i].f>> \o cs[i].args]

FailedWrites(l) == LET ws == Writes(l) IN {i \in 1 .. Len(ws) : ~ws[i].ok}
NoWriteFailed(l) == FailedWrites(l) = {}

\* the operation stopped at its only failed write: that write is the last
\* thing it did, and the error returned is the error of that write
StoppedAtFailure ==
    /\ log[Len(log)].k = "i2c"
    /\ ~log[Len(log)].ok
    /\ FailedWrites(log) = {Len(Writes(log))}
    /\ result = [tag |-> "Err", err |-> Len(Writes(log))]

\* a successful bus write of byte b, and delays
W(b) == [k |-> "i2c", a |-> self.address, b |-> b, ok |-> TRUE]
Ms(n) == [k |-> "delay_ms", n |-> n]
Us(n) == [k |-> "delay_us", n |-> n]

\* write4bits(v), v a nibble in bits 7..4 plus role bits, with the backlight on:
\* v, then v with the enable bit, 1 us, v again, 1 us, each with bit 3 set
NibbleOn(v) == <<W(v + 8), W(v + 12), Us(1), W(v + 8), Us(1)>>

----------------------------------------------------------------------------
(* C1..C3: construction and error propagation. *)

InitWire ==
    <<Ms(50), W(8), Ms(1)>>
    \o NibbleOn(48) \o <<Ms(5)>>
    \o NibbleOn(48) \o <<Ms(5)>>
    \o NibbleOn(48) \o <<Ms(5)>>
    \o NibbleOn(32) \o <<Ms(5)>>
    \o NibbleOn(32) \o NibbleOn(128)
    \o NibbleOn(0) \o NibbleOn(16) \o <<Ms(2)>>
    \o NibbleOn(0) \o NibbleOn(96)

\* C1: a construction on which no bus write fails emits exactly: 50 ms; the
\* bare write 0x08; 1 ms; the nibble 0x30 three times, 5 ms after each; the
\* nibble 0x20, 5 ms; the commands 0x28, 0x01 (then 2 ms) and 0x06; the
\* millisecond delays are (50, 1, 5, 5, 5, 5, 2), none after the last command.
C1_InitTrace ==
    (op.name = "new" /\ result.tag = "Ok") =>
        /\ Wire(log) = InitWire
        /\ MsDelays(log) = <<50, 1, 5, 5, 5, 5, 2>>
        /\ CallsOf(log, {"command"}) = <<<<"command", 40>>, <<"command", 1>>, <<"command", 6>>>>
        /\ log[Len(log)].k = "delay_us"

C1_Witness ==
    pc = "returned" /\ op.name = "new" /\ result.tag = "Ok" /\ Len(Writes(log)) = 31

\* C2: when a bus write of the construction fails, that write is the last
\* thing Lcd::new does, Lcd::new returns the error of that write, and the
\* caller gets no driver.
C2_InitAborts ==
    (op.name = "new" /\ (~NoWriteFailed(log) \/ result.tag = "Err")) =>
        /\ StoppedAtFailure
        /\ pc = "failed"
        /\ self = NoLcd

\* the failure hits the second of the three 8-bit-mode sends (attempts 5..7)
C2_Witness ==
    /\ pc = "failed" /\ op.name = "new"
    /\ result.tag = "Err" /\ result.err \in 5 .. 7
    /\ Len(Writes(log)) = result.err

FailFastOps ==
    {"clear", "home", "set_cursor_position", "set_display", "set_cursor",
     "set_blink", "set_backlight", "write", "print"}

\* C3: in clear, home, set_cursor_position, set_display, set_cursor,
\* set_blink, set_backlight, write and print, the first bus write that fails
\* is the last thing the operation does (no retry, no later write), and the
\* operation returns the error of that write.
C3_FailFast ==
    (op.name \in FailFastOps /\ (~NoWriteFailed(log) \/ result.tag = "Err")) =>
        /\ StoppedAtFailure
        /\ pc = "returned"

\* a print of two or more characters whose first high nibble fails at its
\* enable pulse: no low nibble, no second character
C3_Witness ==
    /\ pc = "returned" /\ op.name = "print" /\ Len(op.args[1]) >= 2
    /\ result = [tag |-> "Err", err |-> 2]
    /\ CallsOf(log, {"write4bits"}) = <<<<"write4bits", 65>>>>

----------------------------------------------------------------------------
(* C4..C6: cursor addressing and print. *)

Min(a, b) == IF a < b THEN a ELSE b
\* clamp(r, 0, n - 1) for a row r >= 0
ClampRow(r, n) == Min(r, n - 1)

\* C4 as stated: for every (cols, rows) with rows <= 4 the offsets are
\* [0x00, 0x40, cols, 0x40 + cols] and set_cursor_position(c, r) issues one
\* command with byte 0x80 | (c + row_offsets[clamp(r, 0, rows - 1)]).
C4_AsStated ==
    (op.name = "set_cursor_position" /\ self.rows <= 4) =>
        /\ self.row_offsets = <<0, 64, cols, 64 + cols>>
        /\ Len(CallsOf(log, {"command"})) = 1
        /\ CallsOf(log, {"command"})[1] =
               <<"command",
                 BitOr(128, op.args[1]
                            + self.row_offsets[ClampRow(op.args[2], self.rows) + 1])>>

\* C4, amended: for 1 <= rows <= 4 and cols <= 0xBF the offsets are
\* [0x00, 0x40, cols, 0x40 + cols], and set_cursor_position(c, r), for any r
\* and any c with c + row_offsets[clamp(r, 0, rows - 1)] <= 0xFF, issues one
\* command with byte 0x80 | (c + row_offsets[clamp(r, 0, rows - 1)]).
C4_CursorAddress ==
    /\ (self # NoLcd /\ self.rows \in 1 .. 4 /\ cols <= 191) =>
           self.row_offsets = <<0, 64, cols, 64 + cols>>
    /\ (/\ op.name = "set_cursor_position"
        /\ self.rows \in 1 .. 4
        /\ cols <= 191
        /\ op.args[1] + self.row_offsets[ClampRow(op.args[2], self.rows) + 1] <= 255) =>
           /\ pc = "returned"
           /\ CallsOf(log, {"command"}) =
                  << <<"command",
                       BitOr(128, op.args[1]
                                  + self.row_offsets[ClampRow(op.args[2], self.rows) + 1])>> >>
           /\ Len(CallsOf(log, {"send"})) = 1

\* row 255 on a 2-row, 16-column display: row 1, address 0x80 | (3 + 0x40)
C4_Witness ==
    /\ pc = "returned" /\ op.name = "set_cursor_position" /\ op.args = <<3, 255>>
    /\ self.rows = 2 /\ cols = 16 /\ result.tag = "Ok"
    /\ CallsOf(log, {"command"}) = << <<"command", 195>> >>

\* the calls print makes for the characters of its text
PrintCalls(l) == CallsOf(l, {"write", "set_cursor_position"})

\* C5: a print on which no bus write fails handles its characters in text
\* order: the i-th call it makes is write(c) for the i-th character c when c
\* is not '\n' (one data send, register-select role), and
\* set_cursor_position(0, row) when it is '\n' (one command send, no data
\* write); a print that returns has made one such call per character.
\* print("AB\nC") on a 2-row, 16-column display: write('A'), write('B'),
\* set_cursor_position(0, 1), write('C').
C5_PrintOrder ==
    (op.name = "print" /\ NoWriteFailed(log)) =>
        LET text == op.args[1]
            cs == PrintCalls(log)
            sends == CallsOf(log, {"send"})
        IN  /\ Len(cs) <= Len(text)
            /\ Len(sends) = Len(cs)
            /\ \A i \in 1 .. Len(cs) :
                   IF text[i] = 10
                   THEN /\ cs[i][1] = "set_cursor_position"
                        /\ cs[i][2] = 0
                        /\ sends[i][3] = 0
                   ELSE /\ cs[i] = <<"write", text[i] % 256>>
                        /\ sends[i] = <<"send", text[i] % 256, 1>>
            /\ (self.rows >= 1) => result.tag = "Ok"
            /\ (result.tag = "Ok") => Len(cs) = Len(text)
            /\ (text = <<65, 66, 10, 67>> /\ self.rows = 2 /\ cols = 16) =>
                   cs = << <<"write", 65>>, <<"write", 66>>,
                           <<"set_cursor_position", 0, 1>>, <<"write", 67>> >>

C5_Witness ==
    /\ pc = "returned" /\ op.name = "print" /\ op.args = << <<65, 66, 10, 67>> >>
    /\ self.rows = 2 /\ cols = 16 /\ result.tag = "Ok"
    /\ Len(PrintCalls(log)) = 4

\* C6: on a display with 2 <= rows <= 4 the k-th newline of a print calls
\* set_cursor_position(0, min(k, rows)), a row in [1, rows], and so sends the
\* command 0x80 | row_offsets[min(k, rows - 1)]: past the last row every
\* newline addresses the last row again, never row 0.
C6_NewlineClamp ==
    (op.name = "print" /\ self.rows \in 2 .. 4) =>
        LET moves == CallsOf(log, {"set_cursor_position"})
            cmds == CallsOf(log, {"command"})
        IN  /\ Len(cmds) = Len(moves)
            /\ \A k \in 1 .. Len(moves) :
                   /\ moves[k] = <<"set_cursor_position", 0, Min(k, self.rows)>>
                   /\ cmds[k] = <<"command",
                                  BitOr(128, self.row_offsets[Min(k, self.rows - 1) + 1])>>
            /\ (result.tag = "Ok") =>
                   Len(moves) = Cardinality({i \in 1 .. Len(op.args[1]) : op.args[1][i] = 10})

\* three newlines on a 2-row display: rows 1, 1, 1
C6_Witness ==
    /\ pc = "returned" /\ op.name = "print" /\ self.rows = 2 /\ result.tag = "Ok"
    /\ Len(CallsOf(log, {"set_cursor_position"})) >= 3
    /\ CallsOf(log, {"command"})[3] = <<"command", 128 + 64>>

----------------------------------------------------------------------------
(* C7..C10: backlight, display control, custom characters. *)

\* bit 3 of a byte
Bit3(b) == (b \div 8) % 2

\* the backlight flag during the last operation: every operation that
\* changes it does so before its first bus write; a construction runs with
\* the flag of DisplayControl::new
BacklightNow == IF self = NoLcd THEN DisplayControl_new.backlight ELSE self.control.backlight

\* C7: every byte written to the bus has bit 3 set when the backlight flag
\* is On and clear when it is Off, whatever the command or data payload.
C7_BacklightBit ==
    \A i \in 1 .. Len(log) :
        log[i].k = "i2c" =>
            Bit3(log[i].b) = (IF BacklightNow = Backlight_On THEN 1 ELSE 0)

\* the data byte 0xFF written with the backlight off: six bytes, bit 3 clear
C7_Witness ==
    /\ pc = "returned" /\ op.name = "write" /\ op.args = <<255>>
    /\ self.control.backlight = Backlight_Off /\ result.tag = "Ok"
    /\ Len(Writes(log)) = 6

\* 0x08 | value() of a Control Aggregator: the flags occupy distinct bits
DisplayControlByte(c) ==
    LET v == c.blink + c.cursor + c.display + c.backlight
    IN  IF Bit3(v) = 1 THEN v ELSE v + 8

FlagSetters == {"set_display", "set_cursor", "set_blink"}

\* C8: set_display, set_cursor and set_blink replace the display, cursor
\* and blink field respectively and nothing else of the driver, and then
\* issue one command, 0x08 | value() of the updated fields.
C8_FlagSetters ==
    [][op'.name \in FlagSetters =>
        /\ self' = CASE op'.name = "set_display" ->
                            [self EXCEPT !.control.display = op'.args[1]]
                     [] op'.name = "set_cursor" ->
                            [self EXCEPT !.control.cursor = op'.args[1]]
                     [] op'.name = "set_blink" ->
                            [self EXCEPT !.control.blink = op'.args[1]]
        /\ CallsOf(log', {"command"}) =
               << <<"command", DisplayControlByte(self'.control)>> >>
        /\ Len(CallsOf(log', {"send"})) = 1
        /\ NoWriteFailed(log') => Len(Writes(log')) = 6]_vars

\* set_cursor(On) when display and blink are on: command 0x08 | 0x0F
C8_Witness ==
    /\ pc = "returned" /\ op.name = "set_cursor" /\ op.args = <<Cursor_On>>
    /\ self.control.display = Display_On /\ self.control.blink = Blink_On
    /\ self.control.cursor = Cursor_On /\ result.tag = "Ok"
    /\ CallsOf(log, {"command"}) = << <<"command", 15>> >>

\* C9: set_backlight(b) stores b and makes one bare expander_write(0): one
\* bus byte, 0x08 for On and 0x00 for Off, no enable pulse, no command, no
\* delay.
C9_SetBacklight ==
    (op.name = "set_backlight") =>
        /\ self.control.backlight = op.args[1]
        /\ Len(Wire(log)) = 1
        /\ Wire(log)[1].k = "i2c"
        /\ Wire(log)[1].b = op.args[1]
        /\ Wire(log)[1].a = self.address
        /\ CallsOf(log, {"expander_write", "pulse_enable", "write4bits", "send", "command"})
               = << <<"expander_write", 0>> >>

\* the backlight is switched off: the byte 0x00
C9_Witness ==
    /\ pc = "returned" /\ op.name = "set_backlight" /\ op.args = <<Backlight_Off>>
    /\ result.tag = "Ok" /\ Writes(log)[1].b = 0

----------------------------------------------------------------------------
(* C11: clear and home wait for the execution time of their command. *)

WriteIdx(l) == {i \in 1 .. Len(l) : l[i].k = "i2c"}
WritesBetween(l, i, j) == {m \in WriteIdx(l) : i < m /\ m <= j}

\* the positions of the last bus write of the command called at position i,
\* when all of its bus writes succeeded: the sixth write after the call
CommandEnd(l, i) ==
    {j \in WriteIdx(l) : /\ j > i
                         /\ Cardinality(WritesBetween(l, i, j)) = 6
                         /\ \A m \in WritesBetween(l, i, j) : l[m].ok}

IsSlowCommand(e) ==
    /\ e.k = "call"
    /\ e.f = "command"
    /\ e.args \in {<<Mode_CLEARDISPLAY>>, <<Mode_RETURNHOME>>}

\* C11: clear sends command 0x01 and home sends command 0x02 and nothing
\* else; whenever the bus writes of such a command succeed (in clear, in
\* home and in the clear made by init), a delay of at least 2 ms comes after
\* its last bus write and before any later bus write, and a successful clear
\* or home ends with that delay.
C11_ClearHomeDelay ==
    /\ op.name = "clear" => CallsOf(log, {"command"}) = << <<"command", 1>> >>
    /\ op.name = "home"  => CallsOf(log, {"command"}) = << <<"command", 2>> >>
    /\ op.name \in {"clear", "home"} /\ result.tag = "Ok" =>
           /\ log[Len(log)].k = "delay_ms"
           /\ log[Len(log)].n >= 2
           /\ Len(Writes(log)) > 0
    /\ \A i \in 1 .. Len(log) :
           IsSlowCommand(log[i]) =>
               \A j \in CommandEnd(log, i) :
                   \E m \in (j + 1) .. Len(log) :
                       /\ log[m].k = "delay_ms"
                       /\ log[m].n >= 2
                       /\ WritesBetween(log, j, m) = {}

C11_Witness ==
    /\ pc = "returned"
    /\ op.name = "clear"
    /\ result.tag = "Ok"
    /\ Len(Writes(log)) = 6
    /\ log[Len(log)] = Ms(2)

----------------------------------------------------------------------------
(* C12: the display flag and the construction. *)

\* the commands of the recording l whose opcode is display control
\* (0x08 .. 0x0F), as the bytes commanded
DisplayControlCommands(l) ==
    LET cs == CallsOf(l, {"command"})
    IN  {c \in {cs[i][2] : i \in 1 .. Len(cs)} :
            c \in Mode_DISPLAYCONTROL .. (2 * Mode_DISPLAYCONTROL - 1)}

\* C12 as stated: a successful construction issues a display-control command
\* with the display-on bit and leaves the display flag On.
C12_AsStated ==
    op.name = "new" /\ result.tag = "Ok" =>
        /\ self.control.display = Display_On
        /\ \E c \in DisplayControlCommands(log) : (c \div Display_On) % 2 = 1

\* C12: the display flag is off in a new Control Aggregator and stays off
\* through the initialization: a successful construction issues no
\* display-control command and leaves the display flag Off; afterwards the
\* flag changes only in a set_display call, to the value that call is given.
C12_DisplayStaysOff ==
    [][/\ op'.name = "new" /\ result'.tag = "Ok" =>
              /\ self'.control.display = Display_Off
              /\ DisplayControlCommands(log') = {}
              /\ CallsOf(log', {"write_display_control"}) = <<>>
       /\ self # NoLcd /\ self' # NoLcd
              /\ self'.control.display # self.control.display =>
              /\ op'.name = "set_display"
              /\ self'.control.display = op'.args[1]]_vars

C12_Witness ==
    /\ pc = "returned"
    /\ op.name = "new"
    /\ result.tag = "Ok"
    /\ self.control.display = Display_Off
    /\ Len(CallsOf(log, {"command"})) = 3

----------------------------------------------------------------------------
(* C13: DisplayControl::value(), under ValueSpec. *)

\* C13: in every call, value() returns blink | cursor | display | backlight
\* (the four flags are distinct bits, so the OR is their sum), the same byte
\* whatever the direction is, 0x08 when cursor, display and blink are off
\* and the backlight is on; the call changes no field; and a call that
\* follows another with no field assigned in between returns the same byte.
C13_ValuePure ==
    [][op'.name = "value" /\ log' # log =>
          /\ result'.value = self.blink + self.cursor + self.display + self.backlight
          /\ \A d \in {Direction_LEFT, Direction_RIGHT} :
                 DisplayControl_value([self EXCEPT !.direction = d]) = result'.value
          /\ [self EXCEPT !.direction = Direction_LEFT] = DisplayControl_new =>
                 result'.value = 8
          /\ self' = self
          /\ result.tag = "Ok" => result'.value = result.value]_vars

C13_Witness ==
    /\ pc = "control"
    /\ op.name = "value"
    /\ Len(log) = 2
    /\ self.direction = Direction_RIGHT
    /\ [self EXCEPT !.direction = Direction_LEFT] = DisplayControl_new
    /\ result.tag = "Ok"
    /\ result.value = 8

----------------------------------------------------------------------------
(* C14: the two nibbles of send. *)

CallIdx(l, f) == {i \in 1 .. Len(l) : l[i].k = "call" /\ l[i].f = f}

\* the part of the recording l made by the send called at position i: it
\* runs up to the next call of send, or to the end
SendPart(l, i) ==
    LET later == {j \in CallIdx(l, "send") : j > i}
        end == IF later = {} THEN Len(l)
               ELSE (CHOOSE j \in later : \A k \in later : j <= k) - 1
    IN  SubSeq(l, i + 1, end)

\* no bus write of the first nibble of that part failed
HighNibbleSent(part) ==
    LET ws == Writes(part)
    IN  Len(ws) >= 3 /\ \A m \in 1 .. 3 : ws[m].ok

HighOf(data, role) == (data \div 16) * 16 + role
LowOf(data, role) == (data % 16) * 16 + role

\* C14 as stated: every send makes exactly two write4bits calls.
C14_AsStated ==
    \A i \in CallIdx(log, "send") :
        CallsOf(SendPart(log, i), {"write4bits"}) =
            << <<"write4bits", HighOf(log[i].args[1], log[i].args[2])>>,
               <<"write4bits", LowOf(log[i].args[1], log[i].args[2])>> >>

\* C14: send(data, role) calls write4bits with the high nibble first,
\* (data & 0xF0) | role, and then with the low nibble, ((data << 4) & 0xF0)
\* | role, where role is 0x00 or 0x01: exactly these two calls when no bus
\* write of the first fails, and only the first when one does.
C14_SendNibbles ==
    \A i \in CallIdx(log, "send") :
        LET data == log[i].args[1]
            role == log[i].args[2]
            part == SendPart(log, i)
            high == <<"write4bits", HighOf(data, role)>>
            low == <<"write4bits", LowOf(data, role)>>
        IN  /\ role \in {BitAction_Command, BitAction_RegisterSelect}
            /\ CallsOf(part, {"write4bits"}) =
                   IF HighNibbleSent(part) THEN <<high, low>> ELSE <<high>>

C14_Witness ==
    /\ pc = "returned"
    /\ op.name = "write"
    /\ op.args = <<65>>
    /\ result.tag = "Ok"
    /\ CallsOf(log, {"send", "write4bits"}) =
           << <<"send", 65, 1>>, <<"write4bits", 65>>, <<"write4bits", 17>> >>

----------------------------------------------------------------------------
(* C15: the enable pulse. *)

HasEnable(b) == (b \div BitAction_Enable) % 2 = 1
WithEnable(d) == IF HasEnable(d) THEN d ELSE d + BitAction_Enable
WithoutEnable(d) == IF HasEnable(d) THEN d - BitAction_Enable ELSE d

IsCallOf(e, f, args) == e.k = "call" /\ e.f = f /\ e.args = args
IsUs(e) == e.k = "delay_us" /\ e.n >= 1
\* position j of the recording is past its end, or is a call of something
\* else than expander_write: the pulse before it does nothing more
PulseOver(l, j) == j > Len(l) \/ (l[j].k = "call" /\ l[j].f # "expander_write")

\* the pulse called at position i of l made its first write, with enable set
PulseHigh(l, i) ==
    /\ Len(l) >= i + 2
    /\ IsCallOf(l[i + 1], "expander_write", <<WithEnable(l[i].args[1])>>)
    /\ l[i + 2].k = "i2c"
    /\ HasEnable(l[i + 2].b)

\* ... and after it a delay and its second write, with enable cleared
PulseLow(l, i) ==
    /\ Len(l) >= i + 5
    /\ IsUs(l[i + 3])
    /\ IsCallOf(l[i + 4], "expander_write", <<WithoutEnable(l[i].args[1])>>)
    /\ l[i + 5].k = "i2c"
    /\ ~HasEnable(l[i + 5].b)

\* ... and after it a delay, and then nothing of the pulse
PulseDone(l, i) ==
    /\ Len(l) >= i + 6
    /\ IsUs(l[i + 6])
    /\ Len(l) >= i + 7 => l[i + 7].k = "delay_ms" \/ PulseOver(l, i + 7)

\* C15 as stated: every pulse_enable makes both writes and both delays.
C15_AsStated ==
    \A i \in CallIdx(log, "pulse_enable") :
        PulseHigh(log, i) /\ PulseLow(log, i) /\ PulseDone(log, i)

\* C15: pulse_enable(data) calls expander_write with the enable bit (0x04)
\* set; when that write succeeds it waits at least 1 microsecond and calls
\* expander_write with the enable bit cleared; when that write succeeds too
\* it waits at least 1 microsecond again: two expander_write calls and no
\* more.  A pulse whose first write fails makes that one call only and no
\* delay; a pulse whose second write fails makes no delay after it.
C15_PulseEnable ==
    \A i \in CallIdx(log, "pulse_enable") :
        /\ PulseHigh(log, i)
        /\ IF ~log[i + 2].ok THEN PulseOver(log, i + 3)
           ELSE /\ PulseLow(log, i)
                /\ IF ~log[i + 5].ok THEN PulseOver(log, i + 6)
                   ELSE PulseDone(log, i)

C15_Witness ==
    /\ pc = "returned"
    /\ op.name = "write"
    /\ op.args = <<65>>
    /\ result.tag = "Ok"
    /\ CallsOf(log, {"pulse_enable"}) = << <<"pulse_enable", 65>>, <<"pulse_enable", 17>> >>
    /\ SubSeq(Wire(log), 2, 5) = <<W(65 + 8 + 4), Us(1), W(65 + 8), Us(1)>>
    /\ self.control.backlight = Backlight_On

----------------------------------------------------------------------------
(* C16: the bus cost of a logical byte. *)

\* the changes of the enable bit along the bus writes ws, the line being
\* low before the first of them
EnableTransitions(ws) ==
    Cardinality({m \in 1 .. Len(ws) :
                    HasEnable(ws[m].b) # (m > 1 /\ HasEnable(ws[m - 1].b))})

EnableHighs(ws) == {m \in 1 .. Len(ws) : HasEnable(ws[m].b)}

\* C16 as stated: a logical byte costs two bus writes and three enable
\* transitions.
C16_AsStated ==
    \A i \in CallIdx(log, "send") :
        LET ws == Writes(SendPart(log, i))
        IN  Len(ws) = 2 /\ EnableTransitions(ws) = 3

\* C16: every logical byte sent through send costs, when none of its bus
\* writes fails, six bus writes with four enable transitions in total: per
\* nibble one write with enable clear and one pulse, each pulse being two
\* writes (enable set, enable cleared); a send never costs more.
C16_SendCost ==
    \A i \in CallIdx(log, "send") :
        LET part == SendPart(log, i)
            ws == Writes(part)
        IN  /\ Len(ws) <= 6
            /\ (\A m \in 1 .. Len(ws) : ws[m].ok) =>
                   /\ Len(ws) = 6
                   /\ EnableTransitions(ws) = 4
                   /\ EnableHighs(ws) = {2, 5}
                   /\ Len(CallsOf(part, {"write4bits"})) = 2
                   /\ Len(CallsOf(part, {"pulse_enable"})) = 2
                   /\ Len(CallsOf(part, {"expander_write"})) = 6

C16_Witness ==
    /\ pc = "returned"
    /\ op.name = "write"
    /\ op.args = <<255>>
    /\ result.tag = "Ok"
    /\ Len(Writes(log)) = 6
    /\ EnableTransitions(Writes(log)) = 4

----------------------------------------------------------------------------
(* C17: where print keeps its row. *)

\* the row of the first set_cursor_position call of the recording l
FirstNewlineRow(l) == CallsOf(l, {"set_cursor_position"})[1][3]

\* C17 as stated: the row is kept in the driver, so after a print call that
\* advanced the row the first '\n' of the next print call advances to a
\* further row, when the display has one.
C17_AsStated ==
    /\ op.name = "print"
    /\ after_newline
    /\ AdvancedRow(log)
    /\ self.rows >= 2
    => FirstNewlineRow(log) >= 2

\* C17: the driver holds no current-row state: print counts the rows in a
\* local variable that starts at 0 in every call.  A print call leaves the
\* driver as it was, and the first '\n' of every print call advances to row
\* 1, whether or not an earlier print call advanced the row.
C17_RowIsLocal ==
    [][op'.name = "print" =>
          /\ self' = self
          /\ AdvancedRow(log') => FirstNewlineRow(log') = 1]_vars

C17_Witness ==
    /\ pc = "returned"
    /\ op.name = "print"
    /\ op.args = << <<10>> >>
    /\ after_newline
    /\ self.rows = 4
    /\ result.tag = "Ok"
    /\ CallsOf(log, {"set_cursor_position"}) = << <<"set_cursor_position", 0, 1>> >>

----------------------------------------------------------------------------
(* C18: the setters store first and never roll back. *)

\* the field each setter assigns
SetterField ==
    [set_display |-> "display", set_cursor |-> "cursor", set_blink |-> "blink",
     set_backlight |-> "backlight"]

Setters == DOMAIN SetterField

\* every bus write attempt of the recording l carries the backlight flag b
WritesCarry(l, b) ==
    \A i \in 1 .. Len(l) : l[i].k = "i2c" => Bit3(l[i].b) = Bit3(b)

\* C18: a call of set_display, set_cursor, set_blink or set_backlight leaves
\* its argument in its field of the Control Aggregator, and the other
\* fields as they were, whether its bus writes succeed or one fails and the
\* call returns the error; the flag is stored before the bus is touched:
\* every bus write attempt of the call, the first included, carries the
\* backlight flag as stored, and the display-control command is computed
\* from the flags as stored.  No other operation changes the Control
\* Aggregator, and every bus write of every later operation carries the
\* stored backlight flag.
C18_StoreThenWrite ==
    [][self' # NoLcd /\ op'.name # "none" =>
          /\ op'.name \in Setters =>
                 /\ self' = [self EXCEPT !.control[SetterField[op'.name]] = op'.args[1]]
                 /\ Len(Writes(log')) >= 1
                 /\ result'.tag = "Err" => StoppedAtFailure'
                 /\ op'.name # "set_backlight" =>
                        CallsOf(log', {"command"}) =
                            << <<"command", DisplayControlByte(self'.control)>> >>
          /\ op'.name \notin Setters \cup {"new"} => self' = self
          /\ WritesCarry(log', self'.control.backlight)]_vars

\* a set_blink(On) whose first bus write failed, made with the backlight off
C18_Witness ==
    /\ pc = "returned"
    /\ op.name = "set_blink"
    /\ op.args = <<Blink_On>>
    /\ result.tag = "Err"
    /\ self.control.blink = Blink_On
    /\ self.control.backlight = Backlight_Off
    /\ Len(Writes(log)) = 1

----------------------------------------------------------------------------
(* C19: the nibble is stable around the enable strobe. *)

\* C19: along the bus write attempts of every operation, a byte with the
\* enable bit (0x04) set comes right after a successful write of the same
\* byte with enable cleared, and when it is written successfully the next
\* attempt is that byte with enable cleared again (on the bus unless that
\* attempt fails); no two consecutive attempts both have enable set, and
\* the first byte of an operation never has; the bare expander writes, the
\* first write of init and the write of set_backlight, carry the backlight
\* flag only.
C19_StableNibble ==
    LET ws == Writes(log)
    IN  /\ \A m \in 1 .. Len(ws) :
               HasEnable(ws[m].b) =>
                   /\ m > 1
                   /\ ws[m - 1].ok
                   /\ ws[m - 1].b = ws[m].b - BitAction_Enable
                   /\ ws[m].ok =>
                          /\ m + 1 <= Len(ws)
                          /\ ws[m + 1].b = ws[m].b - BitAction_Enable
        /\ \A m \in 1 .. Len(ws) - 1 : ~(HasEnable(ws[m].b) /\ HasEnable(ws[m + 1].b))
        /\ op.name = "new" /\ Len(ws) >= 1 => ws[1].b = DisplayControl_new.backlight
        /\ op.name = "set_backlight" =>
               /\ Len(ws) = 1
               /\ ws[1].b = self.control.backlight

\* a write whose enable-set byte went out and whose next write failed
C19_Witness ==
    /\ pc = "returned"
    /\ op.name = "write"
    /\ op.args = <<65>>
    /\ result.tag = "Err"
    /\ Len(Writes(log)) = 3
    /\ Writes(log)[1] = W(65 + 8)
    /\ Writes(log)[2] = W(65 + 8 + 4)
    /\ Writes(log)[3].b = 65 + 8
    /\ ~Writes(log)[3].ok

----------------------------------------------------------------------------
(* C20: the nibbles stay paired. *)

\* the nibbles pulsed by the recording l, in order
Pulses(l) == CallsOf(l, {"pulse_enable"})
\* the same without the four single nibbles init pulses first, the last of
\* which switches the controller to 4-bit mode
PairedPulses(l) ==
    IF op.name = "new" THEN SubSeq(Pulses(l), 5, Len(Pulses(l))) ELSE Pulses(l)

\* C20: when no bus write of an operation fails, the enable pulses it emits
\* (for the construction: those after the 4-bit-mode nibble 0x20, its
\* fourth pulse) are even in number, each is one successful enable-set bus
\* byte, and they come in pairs, the high nibble and then the low nibble
\* of the byte of one send, in the order of the sends.  Every operation
\* therefore starts and, without a bus failure, ends on a byte boundary.
C20_NibblePairing ==
    NoWriteFailed(log) =>
        LET ps == PairedPulses(log)
            ss == CallsOf(log, {"send"})
        IN  /\ Len(ps) % 2 = 0
            /\ Len(ps) = 2 * Len(ss)
            /\ Cardinality(EnableHighs(Writes(log))) = Len(Pulses(log))
            /\ \A j \in 1 .. Len(ss) :
                   /\ ps[2 * j - 1] = <<"pulse_enable", HighOf(ss[j][2], ss[j][3])>>
                   /\ ps[2 * j] = <<"pulse_enable", LowOf(ss[j][2], ss[j][3])>>
            /\ op.name = "new" /\ result.tag = "Ok" =>
                   /\ Len(Pulses(log)) = 4 + 6
                   /\ Pulses(log)[4] = <<"pulse_enable", Mode_FUNCTIONSET>>

\* print("AB\nC") on a display of two rows or more: four bytes, eight pulses
C20_Witness ==
    /\ pc = "returned"
    /\ op.name = "print"
    /\ op.args = << <<65, 66, 10, 67>> >>
    /\ result.tag = "Ok"
    /\ NoWriteFailed(log)
    /\ Len(Pulses(log)) = 8
    /\ Pulses(log)[5] = <<"pulse_enable", 192>>
    /\ Pulses(log)[6] = <<"pulse_enable", 0>>

============================================================================
